---- MODULE Spec2Model ----
(***************************************************************************)
(* Model of guess_the_word.py: a Streamlit page whose script, run_app, is  *)
(* executed from top to bottom once per user event (page load, "Play       *)
(* Again", the description form's "Submit", "Swap Roles").  The script     *)
(* keeps the secret concept and the role mode in st.session_state, writes  *)
(* the concept to concept_storage/current_concept.txt and talks to the     *)
(* chat-completion provider through safe_chat_completion_create.           *)
(*                                                                         *)
(* Texts are sequences of atoms.  Text that the code inspects character    *)
(* by character (provider replies, which it strips, upper-/lower-cases     *)
(* and searches) is a sequence of one-character strings; a literal         *)
(* fragment of a prompt template or of a fixed message is one atom.        *)
(* Python's None is the empty tuple and a present value x is <<x>>.        *)
(***************************************************************************)
EXTENDS Integers, Sequences, FiniteSets, TLC

VARIABLES session_state, concept_file, rendered, event, calls, shown, locals,
          exit, guesser_log

vars == <<session_state, concept_file, rendered, event, calls, shown, locals,
          exit, guesser_log>>

----------------------------------------------------------------------------
(* Optional values *)

None == <<>>

Some(x) == <<x>>

IsNone(o) == o = <<>>

Get(o) == o[1]

----------------------------------------------------------------------------
(* Python str methods used by the code *)

Whitespace == {" ", "\n", "\t"}

LowerLetters ==
    <<"a","b","c","d","e","f","g","h","i","j","k","l","m",
      "n","o","p","q","r","s","t","u","v","w","x","y","z">>

UpperLetters ==
    <<"A","B","C","D","E","F","G","H","I","J","K","L","M",
      "N","O","P","Q","R","S","T","U","V","W","X","Y","Z">>

UpperChar(c) ==
    IF \E i \in 1..26 : LowerLetters[i] = c
    THEN UpperLetters[CHOOSE i \in 1..26 : LowerLetters[i] = c]
    ELSE c

LowerChar(c) ==
    IF \E i \in 1..26 : UpperLetters[i] = c
    THEN LowerLetters[CHOOSE i \in 1..26 : UpperLetters[i] = c]
    ELSE c

upper(t) == [i \in 1..Len(t) |-> UpperChar(t[i])]

lower(t) == [i \in 1..Len(t) |-> LowerChar(t[i])]

RECURSIVE lstrip(_)
lstrip(t) ==
    IF t # <<>> /\ Head(t) \in Whitespace THEN lstrip(Tail(t)) ELSE t

RECURSIVE rstrip(_)
rstrip(t) ==
    IF t # <<>> /\ t[Len(t)] \in Whitespace
    THEN rstrip(SubSeq(t, 1, Len(t) - 1))
    ELSE t

strip(t) == rstrip(lstrip(t))

(* needle in t *)
contains(t, needle) ==
    \E i \in 1..(Len(t) - Len(needle) + 1) :
        SubSeq(t, i, i + Len(needle) - 1) = needle

----------------------------------------------------------------------------
(* The provider.  One call ends in one of: an exception e, a response      *)
(* whose first choice carries text, a response with no choices, a          *)
(* response whose first choice has content None.                           *)

Raises(e) == [raises |-> TRUE, exc |-> e, choices |-> <<>>]

Replies(t) == [raises |-> FALSE, exc |-> <<>>, choices |-> <<[content |-> Some(t)]>>]

RepliesNoChoices == [raises |-> FALSE, exc |-> <<>>, choices |-> <<>>]

RepliesNoContent == [raises |-> FALSE, exc |-> <<>>, choices |-> <<[content |-> None]>>]

(* the outcome standing for "this call site is not reached in this run" *)
NotCalled == Raises(<<"not called">>)

(* safe_chat_completion_create returning a response next to the error *)
safe_chat_completion_create_both(kwargs, o) ==
    IF o.raises
    THEN [response |-> Some([choices |-> <<>>]),
          error |-> Some(<<"OpenAI API call failed: ">> \o o.exc)]
    ELSE [response |-> Some([choices |-> o.choices]), error |-> None]

(* safe_chat_completion_create: the pair (response, error) it returns *)
safe_chat_completion_create(kwargs, o) ==
    IF o.raises
    THEN [response |-> None,
          error |-> Some(<<"OpenAI API call failed: ">> \o o.exc)]
    ELSE [response |-> Some([choices |-> o.choices]), error |-> None]

(* `if error:` on a value that is None or a str *)
Truthy(s) == ~IsNone(s) /\ Get(s) # <<>>

(* response.choices[0].message.content.strip() raises IndexError on an     *)
(* empty choices list and AttributeError on content None                   *)
ContentRaises(response) ==
    \/ response.choices = <<>>
    \/ IsNone(response.choices[1].content)

Content(response) == Get(response.choices[1].content)

(* one entry of the log of provider calls of a run *)
Call(site, kwargs, o) == [site |-> site, kwargs |-> kwargs, outcome |-> o]

ErrorMsg(t) == [kind |-> "error", text |-> t]

SuccessMsg(t) == [kind |-> "success", text |-> t]

Markdown(t) == [kind |-> "markdown", text |-> t]

(* an uncaught exception ends the script run; Streamlit shows it *)
ExceptionMsg == [kind |-> "exception", text |-> <<"uncaught exception">>]

(* the result of calling one of the module's functions: whether it raised, *)
(* its return value, what it displayed and the provider calls it made      *)
Ret(raised, value, msgs, cs) ==
    [raised |-> raised, value |-> value, shown |-> msgs, calls |-> cs]

----------------------------------------------------------------------------
(* generate_random_concept *)

ConceptPlaceholder == <<"Error! Could not generate concept.">>

generate_params ==
    [model |-> "gpt-4o-mini",
     system |-> <<"You are an AI that comes up with a guessable concept.">>,
     user |-> <<"Generate a single  concept or word that is guessable but not too obscure. Please avoid cliche and overused words like something with 'droom', 'zon' or similar terms. It should be accessible and it should be in Dutch.">>,
     temperature |-> "1"]

generate_random_concept(o) ==
    LET r == safe_chat_completion_create(generate_params, o)
        cs == <<Call("generate_random_concept", generate_params, o)>>
    IN  IF Truthy(r.error)
        THEN Ret(FALSE, ConceptPlaceholder, <<ErrorMsg(Get(r.error))>>, cs)
        ELSE IF ContentRaises(Get(r.response))
        THEN Ret(TRUE, <<>>, <<>>, cs)
        ELSE Ret(FALSE, strip(Content(Get(r.response))), <<>>, cs)

----------------------------------------------------------------------------
(* verify_guess *)

verify_params(original_concept, guess) ==
    [model |-> "gpt-4o",
     system |-> <<"You are a helpful AI that responds with either 'yes' or 'no'.">>,
     user |-> <<"Original concept: '">> \o original_concept \o <<"'\nGuess: '">>
              \o guess
              \o <<"'\nAre they the same concept? Answer only with yes or no.">>,
     temperature |-> "0"]

(* verify_guess with an equality test for the containment *)
verify_guess_exact(original_concept, guess, o) ==
    LET kwargs == verify_params(original_concept, guess)
        r == safe_chat_completion_create(kwargs, o)
        cs == <<Call("verify_guess", kwargs, o)>>
    IN  IF Truthy(r.error)
        THEN Ret(FALSE, FALSE, <<ErrorMsg(Get(r.error))>>, cs)
        ELSE IF ContentRaises(Get(r.response))
        THEN Ret(TRUE, FALSE, <<>>, cs)
        ELSE Ret(FALSE,
                 lower(strip(Content(Get(r.response)))) = <<"y", "e", "s">>,
                 <<>>, cs)

verify_guess(original_concept, guess, o) ==
    LET kwargs == verify_params(original_concept, guess)
        r == safe_chat_completion_create(kwargs, o)
        cs == <<Call("verify_guess", kwargs, o)>>
    IN  IF Truthy(r.error)
        THEN Ret(FALSE, FALSE, <<ErrorMsg(Get(r.error))>>, cs)
        ELSE IF ContentRaises(Get(r.response))
        THEN Ret(TRUE, FALSE, <<>>, cs)
        ELSE Ret(FALSE,
                 contains(lower(strip(Content(Get(r.response)))), <<"y", "e", "s">>),
                 <<>>, cs)

----------------------------------------------------------------------------
(* check_if_cheating *)

cheating_params(concept, user_description) ==
    [model |-> "gpt-4o-mini",
     system |-> <<"You are an AI that checks if the user is cheating by revealing the concept directly. Respond only with CHEATING or NOT CHEATING.">>,
     user |-> <<"Concept: '">> \o concept \o <<"'\nUser description: '">>
              \o user_description
              \o <<"'\nDetermine if the user's description reveals the concept. If the description includes the exact concept respond with CHEATING. Otherwise, respond with NOT CHEATING. Please respond with exactly one word (in all caps): either CHEATING or NOT CHEATING.">>,
     temperature |-> "0"]

(* check_if_cheating with a containment test for the equality *)
check_if_cheating_containing(concept, user_description, o) ==
    LET kwargs == cheating_params(concept, user_description)
        r == safe_chat_completion_create(kwargs, o)
        cs == <<Call("check_if_cheating", kwargs, o)>>
    IN  IF Truthy(r.error)
        THEN Ret(FALSE, FALSE, <<ErrorMsg(Get(r.error))>>, cs)
        ELSE IF ContentRaises(Get(r.response))
        THEN Ret(TRUE, FALSE, <<>>, cs)
        ELSE Ret(FALSE,
                 contains(upper(strip(Content(Get(r.response)))),
                          <<"C", "H", "E", "A", "T", "I", "N", "G">>),
                 <<>>, cs)

check_if_cheating(concept, user_description, o) ==
    LET kwargs == cheating_params(concept, user_description)
        r == safe_chat_completion_create(kwargs, o)
        cs == <<Call("check_if_cheating", kwargs, o)>>
    IN  IF Truthy(r.error)
        THEN Ret(FALSE, FALSE, <<ErrorMsg(Get(r.error))>>, cs)
        ELSE IF ContentRaises(Get(r.response))
        THEN Ret(TRUE, FALSE, <<>>, cs)
        ELSE Ret(FALSE,
                 upper(strip(Content(Get(r.response))))
                     = <<"C", "H", "E", "A", "T", "I", "N", "G">>,
                 <<>>, cs)

----------------------------------------------------------------------------
(* describe_concept: defined by the module, called from nowhere *)

describe_params(concept) ==
    [model |-> "gpt-4o",
     system |-> <<"You are a playful AI giving cryptic hints.">>,
     user |-> <<"Describe the concept '">> \o concept
              \o <<"' without revealing its name.">>,
     temperature |-> "0.7"]

describe_concept(concept, o) ==
    LET kwargs == describe_params(concept)
        r == safe_chat_completion_create(kwargs, o)
        cs == <<Call("describe_concept", kwargs, o)>>
    IN  IF Truthy(r.error)
        THEN Ret(FALSE, <<"Error describing concept. See logs.">>,
                 <<ErrorMsg(Get(r.error))>>, cs)
        ELSE IF ContentRaises(Get(r.response))
        THEN Ret(TRUE, <<>>, <<>>, cs)
        ELSE Ret(FALSE, strip(Content(Get(r.response))), <<>>, cs)

----------------------------------------------------------------------------
(* store_concept_locally: the content of concept_storage/current_concept.txt *)
(* after the call                                                            *)
store_concept_locally(concept) == Some(concept)

(* swap_roles with the comparison testing the wrong constant *)
swap_roles_stuck(current_role) ==
    IF current_role = "LLM_DESCRIBES" THEN "LLM_DESCRIBES" ELSE "USER_DESCRIBES"

(* swap_roles *)
swap_roles(current_role) ==
    IF current_role = "USER_DESCRIBES" THEN "LLM_DESCRIBES" ELSE "USER_DESCRIBES"

----------------------------------------------------------------------------
(* run_app, one execution of the script.                                   *)
(*                                                                         *)
(* A run is computed stage by stage on a context c: the session state ss,  *)
(* the stored file, the widgets rendered so far, the provider calls made,  *)
(* the messages displayed, the script's local variables and how the run    *)
(* ended ("running" while it has not).  ev is the user event that started  *)
(* the run: ev.widget is the widget that reports True in this run ("load"  *)
(* when none does), ev.user_description the text area's content.  oracle   *)
(* gives, per call site, the outcome of the provider call made there.      *)

Put(f, k, v) == [x \in DOMAIN f \cup {k} |-> IF x = k THEN v ELSE f[x]]

NoLocals ==
    [concept |-> None, submitted |-> None, cheating |-> None,
     llm_guess |-> None, verified |-> None]

RunStart(ss, file) ==
    [ss |-> ss, file |-> file, rendered |-> {}, calls |-> <<>>,
     shown |-> <<>>, locals |-> NoLocals, exit |-> "running"]

(* an exception raised by a called function g ends the run *)
RaisedIn(c, g) ==
    [c EXCEPT !.calls = c.calls \o g.calls,
              !.shown = c.shown \o g.shown \o <<ExceptionMsg>>,
              !.exit = "raised"]

(* lines 235-236 *)
StageHeader(c) ==
    [c EXCEPT !.shown = c.shown \o <<Markdown(<<"custom_css">>),
                                     Markdown(<<"<div class='header'>Guess the Concept</div>">>)>>]

(* lines 238-243 *)
StageConcept(c, oracle) ==
    IF c.exit # "running" THEN c
    ELSE IF "concept" \notin DOMAIN c.ss
    THEN LET g == generate_random_concept(oracle.generate)
         IN  IF g.raised THEN RaisedIn(c, g)
             ELSE [c EXCEPT !.calls = c.calls \o g.calls,
                            !.shown = c.shown \o g.shown,
                            !.ss = Put(c.ss, "concept", g.value),
                            !.file = store_concept_locally(g.value),
                            !.locals.concept = Some(g.value)]
    ELSE [c EXCEPT !.locals.concept = Some(c.ss["concept"])]

(* lines 245-246 *)
StageRoleDefault(c) ==
    IF c.exit # "running" THEN c
    ELSE IF "role_mode" \notin DOMAIN c.ss
    THEN [c EXCEPT !.ss = Put(c.ss, "role_mode", "USER_DESCRIBES")]
    ELSE c

MetaRefresh == Markdown(<<"<meta http-equiv='refresh' content='0'>">>)

(* the play-again branch without its store call *)
StagePlayAgainUnstored(c, ev, oracle) ==
    IF c.exit # "running" THEN c
    ELSE LET b == [c EXCEPT !.rendered = c.rendered \cup {"play_again"}]
         IN  IF ev.widget # "play_again" THEN b
             ELSE LET g == generate_random_concept(oracle.play_again)
                  IN  IF g.raised THEN RaisedIn(b, g)
                      ELSE [b EXCEPT
                              !.calls = b.calls \o g.calls,
                              !.shown = b.shown \o g.shown \o <<MetaRefresh>>,
                              !.ss = Put(Put(b.ss, "concept", g.value),
                                         "role_mode", "USER_DESCRIBES"),
                              !.exit = "stopped"]

(* lines 248-253 *)
StagePlayAgain(c, ev, oracle) ==
    IF c.exit # "running" THEN c
    ELSE LET b == [c EXCEPT !.rendered = c.rendered \cup {"play_again"}]
         IN  IF ev.widget # "play_again" THEN b
             ELSE LET g == generate_random_concept(oracle.play_again)
                  IN  IF g.raised THEN RaisedIn(b, g)
                      ELSE [b EXCEPT
                              !.calls = b.calls \o g.calls,
                              !.shown = b.shown \o g.shown \o <<MetaRefresh>>,
                              !.ss = Put(Put(b.ss, "concept", g.value),
                                         "role_mode", "USER_DESCRIBES"),
                              !.file = store_concept_locally(g.value),
                              !.exit = "stopped"]

ConceptCard(concept) ==
    Markdown(<<"<div class='concept-card'>Current Concept: <strong>">>
             \o concept \o <<"</strong></div>">>)

(* line 255 *)
StageConceptCard(c) ==
    IF c.exit # "running" THEN c
    ELSE [c EXCEPT !.shown = c.shown \o <<ConceptCard(Get(c.locals.concept))>>]

(* the guesser call with the session's concept put into the prompt *)
guesser_params_leaking(c, user_description) ==
    [model |-> "gpt-4o",
     system |-> <<"You are a guesser AI, you only know the user's new description.">>,
     user |-> <<"Guess this concept based on: ">> \o user_description
              \o <<" (">> \o c.ss["concept"] \o <<")">>,
     temperature |-> "0.7"]

(* lines 284-291: the keyword arguments of the guesser call, built where  *)
(* both the session state (c.ss) and user_description are in scope       *)
guesser_params(c, user_description) ==
    [model |-> "gpt-4o",
     system |-> <<"You are a guesser AI, you only know the user's new description.">>,
     user |-> <<"Guess this concept based on: ">> \o user_description,
     temperature |-> "0.7"]

GuessCard(llm_guess) ==
    Markdown(<<"<div class='concept-card'>LLM's guess: <strong>">>
             \o llm_guess \o <<"</strong></div>">>)

VerdictMsg(verified) ==
    IF verified
    THEN SuccessMsg(<<"OpenAI verified: The LLM's guess is correct!">>)
    ELSE ErrorMsg(<<"OpenAI says: The LLM's guess is not correct.">>)

(* ShowAndVerify storing the guess as the concept of the next round *)
ShowAndVerifyConsuming(c, response, oracle) ==
    IF ContentRaises(response)
    THEN [c EXCEPT !.shown = c.shown \o <<ExceptionMsg>>, !.exit = "raised"]
    ELSE LET llm_guess == strip(Content(response))
             b == [c EXCEPT !.locals.llm_guess = Some(llm_guess),
                            !.shown = c.shown \o <<GuessCard(llm_guess)>>]
             v == verify_guess(b.ss["concept"], llm_guess, oracle.verify)
         IN  IF v.raised THEN RaisedIn(b, v)
             ELSE [b EXCEPT !.calls = b.calls \o v.calls,
                            !.shown = b.shown \o v.shown \o <<VerdictMsg(v.value)>>,
                            !.locals.verified = Some(v.value),
                            !.ss = Put(b.ss, "concept", llm_guess)]

(* lines 296-301: the guesser answered with `response` *)
ShowAndVerify(c, response, oracle) ==
    IF ContentRaises(response)
    THEN [c EXCEPT !.shown = c.shown \o <<ExceptionMsg>>, !.exit = "raised"]
    ELSE LET llm_guess == strip(Content(response))
             b == [c EXCEPT !.locals.llm_guess = Some(llm_guess),
                            !.shown = c.shown \o <<GuessCard(llm_guess)>>]
             v == verify_guess(b.ss["concept"], llm_guess, oracle.verify)
         IN  IF v.raised THEN RaisedIn(b, v)
             ELSE [b EXCEPT !.calls = b.calls \o v.calls,
                            !.shown = b.shown \o v.shown \o <<VerdictMsg(v.value)>>,
                            !.locals.verified = Some(v.value)]

(* GuessAndVerify asking the verifier also when the guesser call failed *)
GuessAndVerifyAlways(c, user_description, oracle) ==
    LET params == guesser_params(c, user_description)
        r == safe_chat_completion_create(params, oracle.guess)
        b == [c EXCEPT !.calls = c.calls \o <<Call("run_app", params, oracle.guess)>>]
    IN  IF Truthy(r.error)
        THEN LET v == verify_guess(b.ss["concept"], <<>>, oracle.verify)
             IN  [b EXCEPT !.shown = b.shown \o <<ErrorMsg(Get(r.error))>> \o v.shown,
                           !.calls = b.calls \o v.calls]
        ELSE IF ~IsNone(r.response)
        THEN ShowAndVerify(b, Get(r.response), oracle)
        ELSE b

(* lines 284-301: the else branch of the cheating test *)
GuessAndVerify(c, user_description, oracle) ==
    LET params == guesser_params(c, user_description)
        r == safe_chat_completion_create(params, oracle.guess)
        b == [c EXCEPT !.calls = c.calls \o <<Call("run_app", params, oracle.guess)>>]
    IN  IF Truthy(r.error)
        THEN [b EXCEPT !.shown = b.shown \o <<ErrorMsg(Get(r.error))>>]
        ELSE IF ~IsNone(r.response)
        THEN ShowAndVerify(b, Get(r.response), oracle)
        ELSE b

CheatingMsg ==
    ErrorMsg(<<"Cheating! Please rewrite the description without revealing the concept directly.">>)

(* Submitted without the else: the guess is made whatever the cheat test says *)
SubmittedUngated(c, user_description, oracle) ==
    LET ch == check_if_cheating(c.ss["concept"], user_description, oracle.cheat)
    IN  IF ch.raised THEN RaisedIn(c, ch)
        ELSE LET b == [c EXCEPT !.calls = c.calls \o ch.calls,
                                !.shown = c.shown \o ch.shown,
                                !.locals.cheating = Some(ch.value)]
             IN  GuessAndVerify(
                   IF ch.value THEN [b EXCEPT !.shown = b.shown \o <<CheatingMsg>>] ELSE b,
                   user_description, oracle)

(* lines 280-301: the body of `if submitted:` *)
Submitted(c, user_description, oracle) ==
    LET ch == check_if_cheating(c.ss["concept"], user_description, oracle.cheat)
    IN  IF ch.raised THEN RaisedIn(c, ch)
        ELSE LET b == [c EXCEPT !.calls = c.calls \o ch.calls,
                                !.shown = c.shown \o ch.shown,
                                !.locals.cheating = Some(ch.value)]
             IN  IF ch.value
                 THEN [b EXCEPT !.shown = b.shown \o <<CheatingMsg>>]
                 ELSE GuessAndVerify(b, user_description, oracle)

(* lines 257-301 *)
StageForm(c, ev, oracle) ==
    IF c.exit # "running" THEN c
    ELSE IF c.ss["role_mode"] = "USER_DESCRIBES"
    THEN LET submitted == ev.widget = "submit"
             b == [c EXCEPT !.rendered = c.rendered \cup {"guess_form"},
                            !.locals.submitted = Some(submitted),
                            !.shown = c.shown \o <<Markdown(<<"<script>submit on Enter</script>">>)>>]
         IN  IF submitted THEN Submitted(b, ev.user_description, oracle) ELSE b
    ELSE c

(* the swap branch with the play-again branch's store call copied into it *)
StageSwapRolesStoring(c, ev) ==
    IF c.exit # "running" THEN c
    ELSE LET b == [c EXCEPT !.rendered = c.rendered \cup {"swap_roles"}]
         IN  IF ev.widget = "swap_roles"
             THEN [b EXCEPT !.ss = Put(b.ss, "role_mode", swap_roles(b.ss["role_mode"])),
                            !.file = store_concept_locally(<<b.ss["role_mode"]>>),
                            !.shown = b.shown \o <<MetaRefresh>>,
                            !.exit = "stopped"]
             ELSE b

(* lines 303-306 *)
StageSwapRoles(c, ev) ==
    IF c.exit # "running" THEN c
    ELSE LET b == [c EXCEPT !.rendered = c.rendered \cup {"swap_roles"}]
         IN  IF ev.widget = "swap_roles"
             THEN [b EXCEPT !.ss = Put(b.ss, "role_mode", swap_roles(b.ss["role_mode"])),
                            !.shown = b.shown \o <<MetaRefresh>>,
                            !.exit = "stopped"]
             ELSE b

(* line 308 *)
StageReturn(c) ==
    IF c.exit # "running" THEN c ELSE [c EXCEPT !.exit = "returned"]

(* lines 226-308 *)
run_app(ss, file, ev, oracle) ==
    StageReturn(
     StageSwapRoles(
      StageForm(
       StageConceptCard(
        StagePlayAgain(
         StageRoleDefault(
          StageConcept(
           StageHeader(RunStart(ss, file)), oracle)), ev, oracle)), ev, oracle), ev))

----------------------------------------------------------------------------
(* Inputs: what the provider may answer and what the user may type *)

Vulkaan == <<"v", "u", "l", "k", "a", "a", "n">>

Fiets == <<"f", "i", "e", "t", "s">>

Volcano == <<"v", "o", "l", "c", "a", "n", "o">>

Cheating == <<"C", "H", "E", "A", "T", "I", "N", "G">>

NotCheating == <<"N", "O", "T", " ">> \o Cheating

Exceptions == {<<"Connection error.">>}

Failures == {Raises(e) : e \in Exceptions}

Malformed == {RepliesNoChoices, RepliesNoContent}

Outcomes(texts) == Failures \cup Malformed \cup {Replies(t) : t \in texts}

GenerateReplies == {Vulkaan, <<" ">> \o Fiets \o <<"\n">>}

CheatReplies ==
    {Cheating, <<" ">> \o lower(Cheating) \o <<"\n">>, NotCheating, Cheating \o <<".">>}

GuessReplies == {Volcano, <<" ">> \o Vulkaan \o <<" ">>}

VerifyReplies ==
    {<<"Y", "e", "s">>, <<"N", "o">>, <<"y", "e", "s", "t", "e", "r", "d", "a", "y">>}

(* the replies drawn while the guesser calls are being recorded *)
CheatRepliesLogged == {Cheating, NotCheating}

VerifyRepliesLogged == {<<"Y", "e", "s">>}

(* what each call site may get from the provider *)
GenerateOutcomes == Outcomes(GenerateReplies)

CheatOutcomes == Outcomes(CheatReplies)

CheatOutcomesLogged == Outcomes(CheatRepliesLogged)

GuessOutcomes == Outcomes(GuessReplies)

VerifyOutcomes == Outcomes(VerifyReplies)

VerifyOutcomesLogged == Outcomes(VerifyRepliesLogged)

CheatOutcomesFor(logging) == IF logging THEN CheatOutcomesLogged ELSE CheatOutcomes

VerifyOutcomesFor(logging) == IF logging THEN VerifyOutcomesLogged ELSE VerifyOutcomes

Descriptions == {<<"l", "a", "v", "a">>, <<"i", "t", "s", " ">> \o Vulkaan}

(* a file left by an earlier process *)
LeftoverFiles == {None, Some(<<"o", "u", "d">>)}

----------------------------------------------------------------------------
(* The state machine: one action per user event, each a whole script run *)

EmptySessionState == [k \in {} |-> None]

NoEvent == [widget |-> "none", user_description |-> <<>>]

Init ==
    /\ session_state = EmptySessionState
    /\ concept_file \in LeftoverFiles
    /\ rendered = {}
    /\ event = NoEvent
    /\ calls = <<>>
    /\ shown = <<>>
    /\ locals = NoLocals
    /\ exit = "none"
    /\ guesser_log = {}

(* What the provider saw of the guesser calls of a run.  guesser_log     *)
(* collects it over the whole behaviour when `logging` is on; it is an   *)
(* observer's record, which the program neither reads nor writes.        *)
GuesserCalls(c, ev) ==
    {[concept |-> c.ss["concept"],
      user_description |-> ev.user_description,
      kwargs |-> c.calls[i].kwargs] :
        i \in {j \in 1..Len(c.calls) : c.calls[j].site = "run_app"}}

Finish(c, ev, logging) ==
    /\ session_state' = c.ss
    /\ concept_file' = c.file
    /\ rendered' = c.rendered
    /\ event' = ev
    /\ calls' = c.calls
    /\ shown' = c.shown
    /\ locals' = c.locals
    /\ exit' = c.exit
    /\ guesser_log' = IF logging THEN guesser_log \cup GuesserCalls(c, ev)
                                 ELSE guesser_log

(* whether the run that ended in c called the provider from `site` *)
Called(c, site) == \E i \in 1..Len(c.calls) : c.calls[i].site = site

(* the outcomes to draw for a call site: none when it is not reached *)
OutcomesIf(reached, outcomes) == IF reached THEN outcomes ELSE {NotCalled}

Oracle(g, p, c, u, v) ==
    [generate |-> g, play_again |-> p, cheat |-> c, guess |-> u, verify |-> v]

(* The browser opens or reloads the page: a new session, whose state is    *)
(* empty, runs the script with no widget reporting True.                   *)
PageLoad(logging) ==
    /\ TRUE
    /\ \E g \in GenerateOutcomes :
        LET ev == [widget |-> "load", user_description |-> <<>>]
        IN  Finish(run_app(EmptySessionState, concept_file, ev,
                           Oracle(g, NotCalled, NotCalled, NotCalled, NotCalled)),
                   ev, logging)

(* The user clicks "Play Again". *)
PlayAgain(logging) ==
    /\ "play_again" \in rendered
    /\ \E g \in OutcomesIf("concept" \notin DOMAIN session_state, GenerateOutcomes),
          p \in GenerateOutcomes :
        LET ev == [widget |-> "play_again", user_description |-> <<>>]
        IN  Finish(run_app(session_state, concept_file, ev,
                           Oracle(g, p, NotCalled, NotCalled, NotCalled)),
                   ev, logging)

(* The user submits the description form, typing one of `descriptions`;  *)
(* the provider answers from the given sets.  The outcome of a provider   *)
(* call is drawn only when the run, given the outcomes of the calls       *)
(* before it, makes that call.                                            *)
SubmitWith(logging, descriptions, cheats, guesses, verifications) ==
    /\ "guess_form" \in rendered
    /\ \E d \in descriptions,
          g \in OutcomesIf("concept" \notin DOMAIN session_state, GenerateOutcomes),
          c \in cheats :
        LET ev == [widget |-> "submit", user_description |-> d]
            Run(u, v) == run_app(session_state, concept_file, ev,
                                 Oracle(g, NotCalled, c, u, v))
        IN  \E u \in OutcomesIf(Called(Run(NotCalled, NotCalled), "run_app"), guesses) :
            \E v \in OutcomesIf(Called(Run(u, NotCalled), "verify_guess"), verifications) :
                Finish(Run(u, v), ev, logging)

Submit(logging) ==
    SubmitWith(logging, Descriptions, CheatOutcomesFor(logging),
               GuessOutcomes, VerifyOutcomesFor(logging))

(* The user clicks "Swap Roles". *)
SwapRoles(logging) ==
    /\ "swap_roles" \in rendered
    /\ \E g \in OutcomesIf("concept" \notin DOMAIN session_state, GenerateOutcomes) :
        LET ev == [widget |-> "swap_roles", user_description |-> <<>>]
        IN  Finish(run_app(session_state, concept_file, ev,
                           Oracle(g, NotCalled, NotCalled, NotCalled, NotCalled)),
                   ev, logging)

Next == PageLoad(FALSE) \/ PlayAgain(FALSE) \/ Submit(FALSE) \/ SwapRoles(FALSE)

Spec == Init /\ [][Next]_vars

(* the same machine with the provider's record of the guesser calls kept *)
NextLogged == PageLoad(TRUE) \/ PlayAgain(TRUE) \/ Submit(TRUE) \/ SwapRoles(TRUE)

SpecLogged == Init /\ [][NextLogged]_vars

----------------------------------------------------------------------------
(* Reading a state: the run that produced it *)

RoleModes == {"USER_DESCRIBES", "LLM_DESCRIBES"}

(* the provider calls the last run made from `site` *)
CallsFrom(site) == {calls[i] : i \in {j \in 1..Len(calls) : calls[j].site = site}}

NoCallFrom(site) == CallsFrom(site) = {}

Displayed(kind) == {shown[i] : i \in {j \in 1..Len(shown) : shown[j].kind = kind}}

GuessDisplayed ==
    \E m \in Displayed("markdown") : Head(m.text) = "<div class='concept-card'>LLM's guess: <strong>"

VerdictDisplayed ==
    \E m \in Displayed("success") \cup Displayed("error") :
        m.text \in {<<"OpenAI verified: The LLM's guess is correct!">>,
                    <<"OpenAI says: The LLM's guess is not correct.">>}

----------------------------------------------------------------------------
(* C1: a submit-description run in which the cheat detector answers         *)
(* "cheating" makes no guesser call and no verifier call, produces no guess *)
(* and no verdict, and leaves the session awaiting a description: the       *)
(* concept and the role mode are what they were and the form is rendered.   *)
C1_CheatingStopsTheTurn ==
    [][(event'.widget = "submit" /\ locals'.cheating = Some(TRUE))
        => /\ NoCallFrom("run_app")'
           /\ NoCallFrom("verify_guess")'
           /\ locals'.llm_guess = None
           /\ locals'.verified = None
           /\ ~GuessDisplayed'
           /\ ~VerdictDisplayed'
           /\ session_state' = session_state
           /\ session_state'["role_mode"] = "USER_DESCRIBES"
           /\ "guess_form" \in rendered'
           /\ exit' = "returned"]_vars

C1_Witness ==
    /\ event.widget = "submit"
    /\ locals.cheating = Some(TRUE)
    /\ CheatingMsg \in Displayed("error")

----------------------------------------------------------------------------
(* C2: whenever a provider call of a run fails, the Concept and the        *)
(* RoleMode the session held before the run are what it holds after it.    *)
(* A page load starts a session that holds neither, so it has nothing to   *)
(* keep.                                                                   *)
SomeCallFailed == \E i \in 1..Len(calls) : calls[i].outcome.raises

C2_FailureLeavesGameState ==
    [][SomeCallFailed'
        => LET before == IF event'.widget = "load" THEN EmptySessionState
                         ELSE session_state
           IN  \A k \in DOMAIN before : session_state'[k] = before[k]]_vars

----------------------------------------------------------------------------
(* C3: the guesser's prompt is a function of the submitted description     *)
(* only: any two guesser calls the provider has seen for the same          *)
(* description, under whatever concepts, carry the same system and user    *)
(* prompts (and the same model and temperature).                           *)
C3_GuesserPromptFromDescriptionOnly ==
    \A a \in guesser_log : \A b \in guesser_log :
        a.user_description = b.user_description
            => /\ a.kwargs.system = b.kwargs.system
               /\ a.kwargs.user = b.kwargs.user
               /\ a.kwargs = b.kwargs

C3_Witness ==
    \E a \in guesser_log : \E b \in guesser_log :
        /\ a.user_description = b.user_description
        /\ a.concept # b.concept

----------------------------------------------------------------------------
(* C4: after a play-again run the role mode is USER_DESCRIBES, whatever    *)
(* became of the run's concept generation.                                 *)
C4_PlayAgainResetsRole ==
    event.widget = "play_again" => session_state["role_mode"] = "USER_DESCRIBES"

----------------------------------------------------------------------------
(* C5: swap_roles maps each role mode to the other one, so applying it     *)
(* twice gives the mode back; the role mode the session holds is one of    *)
(* the two.                                                                *)
C5_SwapRolesInvolution ==
    /\ \A m \in RoleModes :
        /\ swap_roles(swap_roles(m)) = m
        /\ swap_roles(m) # m
        /\ swap_roles(m) \in RoleModes
    /\ "role_mode" \in DOMAIN session_state
        => swap_roles(swap_roles(session_state["role_mode"])) = session_state["role_mode"]

C5_Witness ==
    /\ event.widget = "swap_roles"
    /\ session_state["role_mode"] = "USER_DESCRIBES"

----------------------------------------------------------------------------
(* C6: a swap-roles run changes the role mode to the other variant, leaves *)
(* the session's concept and the stored file as they were and calls the    *)
(* provider not at all.                                                    *)
C6_SwapRolesFrame ==
    [][event'.widget = "swap_roles"
        => /\ session_state'["role_mode"] \in RoleModes \ {session_state["role_mode"]}
           /\ session_state'["concept"] = session_state["concept"]
           /\ concept_file' = concept_file
           /\ calls' = <<>>]_vars

C6_Witness ==
    /\ event.widget = "swap_roles"
    /\ session_state["role_mode"] = "LLM_DESCRIBES"
    /\ concept_file = Some(session_state["concept"])

----------------------------------------------------------------------------
(* C7: a run that plays a turn while the role mode is LLM_DESCRIBES (it    *)
(* starts in that mode and reaches the role branch of the script) calls    *)
(* the describer.                                                          *)
C7_LlmDescribesCallsDescriber ==
    [][(/\ event'.widget \in {"submit", "swap_roles"}
        /\ session_state["role_mode"] = "LLM_DESCRIBES")
        => ~NoCallFrom("describe_concept")']_vars

----------------------------------------------------------------------------
(* C8: when the cheat-detection call of a submit run fails, the run makes  *)
(* no guesser call and no verifier call.                                   *)
CheatCallFailed == \E k \in CallsFrom("check_if_cheating") : k.outcome.raises

C8_CheatFailureStopsTheTurn ==
    (event.widget = "submit" /\ CheatCallFailed)
        => /\ NoCallFrom("run_app")
           /\ NoCallFrom("verify_guess")

----------------------------------------------------------------------------
(* C9: when the verifier's call fails, no verdict is reported: neither     *)
(* "correct" nor "not correct" is displayed.                               *)
VerifyCallFailed == \E k \in CallsFrom("verify_guess") : k.outcome.raises

C9_VerifyFailureGivesNoVerdict ==
    VerifyCallFailed => ~VerdictDisplayed

----------------------------------------------------------------------------
(* check_if_cheating over a bounded family of replies: every upper/lower   *)
(* spelling of the token and a set of near misses, each with up to MaxPad  *)
(* whitespace characters before and after it.                              *)

MaxPad == 1

RECURSIVE CaseVariants(_)
CaseVariants(word) ==
    IF word = <<>> THEN {<<>>}
    ELSE {<<ch>> \o rest : ch \in {LowerChar(Head(word)), UpperChar(Head(word))},
                           rest \in CaseVariants(Tail(word))}

PadChars == {" ", "\n"}

RECURSIVE Pads(_)
Pads(n) ==
    IF n = 0 THEN {<<>>}
    ELSE Pads(n - 1) \cup {<<ch>> \o rest : ch \in PadChars, rest \in Pads(n - 1)}

Maybe == <<"m", "a", "y", "b", "e">>

NearMisses ==
    {NotCheating, lower(NotCheating), Maybe, Cheating \o <<".">>, <<>>,
     <<"C", "H", "E", "A", "T", " ", "I", "N", "G">>,
     <<"C", "H", "E", "A", "T", "I", "N">>,
     Cheating \o <<"S">>, <<"\t">> \o Cheating, <<"X">> \o Cheating}

CheatTexts ==
    {l \o core \o r : l \in Pads(MaxPad), r \in Pads(MaxPad),
                      core \in CaseVariants(Cheating) \cup NearMisses}

(* the first submission after a page load, answered with one of CheatTexts *)
CheatDescriptions == {<<"l", "a", "v", "a">>}

CheatTextOutcomes == {Replies(t) : t \in CheatTexts}

CheatGuessOutcomes == {Replies(Volcano)}

CheatVerifyOutcomes == {Replies(<<"Y", "e", "s">>)}

SubmitCheatTexts ==
    /\ event.widget = "load"
    /\ SubmitWith(FALSE, CheatDescriptions, CheatTextOutcomes,
                  CheatGuessOutcomes, CheatVerifyOutcomes)

NextCheat == PageLoad(FALSE) \/ SubmitCheatTexts

SpecCheat == Init /\ [][NextCheat]_vars

(* the replies the cheat detector got with a text in them *)
CheatReplyTexts ==
    {Get(k.outcome.choices[1].content) :
        k \in {j \in CallsFrom("check_if_cheating") :
                 /\ ~j.outcome.raises
                 /\ j.outcome.choices # <<>>
                 /\ ~IsNone(j.outcome.choices[1].content)}}

(* r is the token CHEATING, in any letter case, between whitespace *)
IsCheatingToken(r) ==
    \E i \in 1..Len(r) :
        /\ i + 7 <= Len(r)
        /\ \A k \in 1..(i - 1) : r[k] \in Whitespace
        /\ \A k \in (i + 8)..Len(r) : r[k] \in Whitespace
        /\ \A k \in 0..7 : r[i + k] \in <<{"c", "C"}, {"h", "H"}, {"e", "E"},
                                         {"a", "A"}, {"t", "T"}, {"i", "I"},
                                         {"n", "N"}, {"g", "G"}>>[k + 1]

(* C10: for every reply text r the cheat detector receives,                *)
(* check_if_cheating returns true exactly when r, trimmed of surrounding   *)
(* whitespace and with letter case ignored, is the token CHEATING; NOT     *)
(* CHEATING, "maybe", "CHEATING." and the empty reply give false.          *)
C10_CheatingIffExactToken ==
    \A r \in CheatReplyTexts :
        /\ locals.cheating = Some(IsCheatingToken(r))
        /\ r \in {NotCheating, Maybe, Cheating \o <<".">>, <<>>}
            => locals.cheating = Some(FALSE)

C10_Witness ==
    \E r \in CheatReplyTexts :
        /\ locals.cheating = Some(TRUE)
        /\ r # Cheating
        /\ Head(r) \in Whitespace
        /\ "h" \in {r[i] : i \in 1..Len(r)}

----------------------------------------------------------------------------
(* verify_guess over a bounded family of replies: every upper/lower        *)
(* spelling of "yes" inside a few surroundings, and replies without it.    *)

Yes == <<"y", "e", "s">>

YesPrefixes == {<<>>, <<" ">>, <<"e">>, <<"O", "h", " ">>}

YesSuffixes ==
    {<<>>, <<"\n">>, <<"t", "e", "r", "d", "a", "y">>,
     <<",", " ", "d", "e", "f", "i", "n", "i", "t", "e", "l", "y">>}

WithoutYes ==
    {<<"N", "o">>, <<"n", "o">>, <<>>, <<"y", "e">>, <<"y", " ", "e", "s">>,
     <<"Y", "E", "\n", "S">>, <<"s", "e", "y">>, <<"y", "e", "a", "h">>,
     <<"j", "a">>}

VerifyTexts ==
    {l \o core \o r : l \in YesPrefixes, r \in YesSuffixes, core \in CaseVariants(Yes)}
        \cup WithoutYes

VerifyCheatOutcomes == {Replies(NotCheating)}

VerifyTextOutcomes == {Replies(t) : t \in VerifyTexts}

(* the first submission after a page load, whose guess is judged with one *)
(* of VerifyTexts                                                          *)
SubmitVerifyTexts ==
    /\ event.widget = "load"
    /\ SubmitWith(FALSE, Descriptions, VerifyCheatOutcomes,
                  GuessOutcomes, VerifyTextOutcomes)

NextVerify == PageLoad(FALSE) \/ SubmitVerifyTexts

SpecVerify == Init /\ [][NextVerify]_vars

(* the verifier calls of the last run that were answered with a text *)
VerifyCallsAnswered ==
    {k \in CallsFrom("verify_guess") :
        /\ ~k.outcome.raises
        /\ k.outcome.choices # <<>>
        /\ ~IsNone(k.outcome.choices[1].content)}

(* r has the letters y, e, s next to each other, in any letter case *)
ContainsYes(r) ==
    \E i \in 1..Len(r) :
        /\ i + 2 <= Len(r)
        /\ r[i] \in {"y", "Y"}
        /\ r[i + 1] \in {"e", "E"}
        /\ r[i + 2] \in {"s", "S"}

(* C11: for every reply text r the verifier receives, verify_guess returns *)
(* true exactly when r contains "yes" with letter case ignored ("Yes,      *)
(* definitely" and "yesterday" give true, "No" gives false), and the       *)
(* verdict is the same for whatever concept and guess the call is about.   *)
C11_VerifyIffContainsYes ==
    \A k \in VerifyCallsAnswered :
        LET r == Get(k.outcome.choices[1].content)
        IN  /\ locals.verified = Some(ContainsYes(r))
            /\ r \in {Yes \o <<"t", "e", "r", "d", "a", "y">>,
                      <<"Y", "e", "s", ",", " ", "d", "e", "f", "i", "n", "i", "t", "e", "l", "y">>}
                => locals.verified = Some(TRUE)
            /\ r = <<"N", "o">> => locals.verified = Some(FALSE)
            /\ \A oc \in {Vulkaan, Fiets, ConceptPlaceholder} :
               \A g \in {Volcano, Vulkaan} :
                   verify_guess(oc, g, k.outcome).value = ContainsYes(r)

C11_Witness ==
    \E k \in VerifyCallsAnswered :
        /\ Get(k.outcome.choices[1].content)
             = <<"Y", "E", "s", "t", "e", "r", "d", "a", "y">>
        /\ locals.verified = Some(TRUE)
        /\ VerdictMsg(TRUE) \in Displayed("success")

----------------------------------------------------------------------------
(* C12: a run in which a provider call is answered with a response that    *)
(* has no choices, or whose message has no content, raises no exception:   *)
(* it ends as a run does whose call failed, with an error reported and     *)
(* the page's widgets rendered for the next action.                        *)
MalformedCalls == {i \in 1..Len(calls) : calls[i].outcome \in Malformed}

C12_MalformedHandledAsError ==
    MalformedCalls # {}
        => /\ exit # "raised"
           /\ ExceptionMsg \notin Displayed("exception")
           /\ Displayed("error") # {}
           /\ "play_again" \in rendered

----------------------------------------------------------------------------
(* C13: every call of safe_chat_completion_create a run makes returns      *)
(* without raising, and returns exactly one of the two: the response and   *)
(* no error when the provider call succeeded, no response and the error    *)
(* message when it failed.  The provider is called once per invocation: a  *)
(* failed call is not made again in the run.                               *)
C13_OneCallOneResult ==
    \A i \in 1..Len(calls) :
        LET k == calls[i]
            r == safe_chat_completion_create(k.kwargs, k.outcome)
        IN  /\ IsNone(r.response) # IsNone(r.error)
            /\ k.outcome.raises
                => /\ IsNone(r.response)
                   /\ Truthy(r.error)
                   /\ r.error = Some(<<"OpenAI API call failed: ">> \o k.outcome.exc)
            /\ ~k.outcome.raises
                => /\ IsNone(r.error)
                   /\ Get(r.response).choices = k.outcome.choices
            /\ \A j \in 1..Len(calls) : calls[j].site = k.site => j = i

C13_Witness ==
    /\ \E k \in CallsFrom("check_if_cheating") : ~k.outcome.raises
    /\ \E k \in CallsFrom("run_app") :
        /\ k.outcome.raises
        /\ ErrorMsg(<<"OpenAI API call failed: ">> \o k.outcome.exc) \in Displayed("error")
    /\ Len(calls) = 2

----------------------------------------------------------------------------
(* C14: a run started by a user action makes at most three provider calls, *)
(* one after the other.  A submit run calls the cheat detector first, the  *)
(* guesser only when the detector has returned (with "not cheating"), the  *)
(* verifier only when the guesser has returned a guess; a play-again run   *)
(* makes the one concept-generation call; a swap-roles run makes none.     *)
Sites == [i \in 1..Len(calls) |-> calls[i].site]

IsPrefix(s, t) == Len(s) <= Len(t) /\ \A i \in 1..Len(s) : s[i] = t[i]

C14_AtMostThreeSequentialCalls ==
    /\ event.widget \in {"submit", "play_again", "swap_roles"} => Len(calls) <= 3
    /\ event.widget = "submit"
        => /\ IsPrefix(Sites, <<"check_if_cheating", "run_app", "verify_guess">>)
           /\ Len(calls) >= 2 => locals.cheating = Some(FALSE)
           /\ Len(calls) = 3
               => /\ ~calls[2].outcome.raises
                  /\ ~IsNone(locals.llm_guess)
                  /\ GuessDisplayed
    /\ event.widget = "play_again" => Sites = <<"generate_random_concept">>
    /\ event.widget = "swap_roles" => Sites = <<>>

C14_Witness ==
    /\ event.widget = "submit"
    /\ Sites = <<"check_if_cheating", "run_app", "verify_guess">>
    /\ locals.verified = Some(TRUE)

----------------------------------------------------------------------------
(* C15: once the first run of a session has ended, the session holds a     *)
(* role mode, and it is USER_DESCRIBES or LLM_DESCRIBES.                   *)
C15_RoleModeIsOneOfTwo ==
    event.widget # "none"
        => /\ "role_mode" \in DOMAIN session_state
           /\ session_state["role_mode"] \in RoleModes

----------------------------------------------------------------------------
(* C16: the concept a run hands to the cheat detector or to the verifier   *)
(* is never the text generate_random_concept returns for a failed call.    *)
ConceptsJudged ==
    {calls[i] : i \in {j \in 1..Len(calls) :
                         calls[j].site \in {"check_if_cheating", "verify_guess"}}}

C16_NoPlaceholderConceptJudged ==
    \A k \in ConceptsJudged :
        \A i \in 1..Len(k.kwargs.user) : k.kwargs.user[i] # ConceptPlaceholder[1]

----------------------------------------------------------------------------
(* C17: a swap-roles run toggles the role mode only when the run before it *)
(* completed a verification for the concept and role mode the session      *)
(* holds: not while a description is awaited, not before any round.        *)
C17_SwapOnlyAfterVerification ==
    [][(/\ event'.widget = "swap_roles"
        /\ session_state'["role_mode"] # session_state["role_mode"])
        => /\ event.widget = "submit"
           /\ ~IsNone(locals.verified)]_vars

----------------------------------------------------------------------------
(* C18: a run of a session whose role mode is LLM_DESCRIBES does not show  *)
(* the concept to the user, unless the run has verified a guess.           *)
ConceptDisplayed ==
    \E m \in Displayed("markdown") :
        Head(m.text) = "<div class='concept-card'>Current Concept: <strong>"

C18_ConceptHiddenFromGuesser ==
    [][(/\ event'.widget # "load"
        /\ "role_mode" \in DOMAIN session_state
        /\ session_state["role_mode"] = "LLM_DESCRIBES")
        => \/ ~ConceptDisplayed'
           \/ ~IsNone(locals'.verified)]_vars

----------------------------------------------------------------------------
(* C19: a submit run leaves the session's concept and role mode as they    *)
(* were, however it ends; the session's concept is given a value only by   *)
(* the first run of a session and by a play-again run.                     *)
C19_SubmitFrame ==
    [][/\ event'.widget = "submit"
          => /\ session_state' = session_state
             /\ "concept" \in DOMAIN session_state'
             /\ "role_mode" \in DOMAIN session_state'
       /\ (/\ "concept" \in DOMAIN session_state'
           /\ \/ "concept" \notin DOMAIN session_state
              \/ session_state'["concept"] # session_state["concept"])
          => event'.widget \in {"load", "play_again"}]_vars

C19_Witness ==
    /\ event.widget = "submit"
    /\ locals.verified = Some(FALSE)
    /\ session_state["concept"] = Fiets
    /\ session_state["role_mode"] = "USER_DESCRIBES"

----------------------------------------------------------------------------
(* C20: after every run, the stored file holds the concept the session     *)
(* holds.  The file is written only by the first run of a session and by   *)
(* a play-again run, with the value the run assigns to the session's       *)
(* concept.                                                                *)
C20_FileHoldsSessionConcept ==
    [][/\ "concept" \in DOMAIN session_state'
          => concept_file' = Some(session_state'["concept"])
       /\ concept_file' # concept_file
          => /\ event'.widget \in {"load", "play_again"}
             /\ "concept" \in DOMAIN session_state'
             /\ concept_file' = store_concept_locally(session_state'["concept"])]_vars

C20_Witness ==
    /\ event.widget = "play_again"
    /\ exit = "stopped"
    /\ session_state["concept"] = Fiets
    /\ concept_file = Some(Fiets)

====
